---- MODULE Spec2Model ----
(***************************************************************************)
(* Model of compare_value_sets.py (value-set comparison and reporting)     *)
(* and of treatisie.py (word/value pair extraction).                       *)
(*                                                                         *)
(* Text is a sequence of atoms (strings).  Input lines are sequences of    *)
(* single characters, so that pattern matching is computed character by    *)
(* character.  Output text is the concatenation of its pieces: a literal   *)
(* piece of a format string is one atom, a formatted number is its decimal *)
(* digits, one atom per digit, and every line feed is the atom "\n".       *)
(***************************************************************************)
EXTENDS Integers, Sequences, FiniteSets, TLC

\* ------------------------------------------------------------------ text

Range(s) == {s[i] : i \in DOMAIN s}

Take(s, n) == SubSeq(s, 1, IF n < Len(s) THEN n ELSE Len(s))

Drop(s, n) == SubSeq(s, n + 1, Len(s))

DigitChars == <<"0", "1", "2", "3", "4", "5", "6", "7", "8", "9">>

Digits == Range(DigitChars)

\* str.strip() and \s: the whitespace characters of the model's alphabet
Whitespace == {" ", "\t", "\n"}

DigitValue(c) == CHOOSE d \in 0..9 : DigitChars[d + 1] = c

\* str(n) of a non-negative integer: its decimal digits, most significant first
RECURSIVE Str(_)
Str(n) == IF n < 10 THEN <<DigitChars[n + 1]>>
          ELSE Append(Str(n \div 10), DigitChars[(n % 10) + 1])

\* int(s) of a non-empty run of decimal digits (leading zeros are dropped)
RECURSIVE ParseInt(_)
ParseInt(s) == IF Len(s) = 0 THEN 0
               ELSE 10 * ParseInt(SubSeq(s, 1, Len(s) - 1)) + DigitValue(s[Len(s)])

\* s.strip()
RECURSIVE LStrip(_)
LStrip(s) == IF Len(s) > 0 /\ s[1] \in Whitespace THEN LStrip(Tail(s)) ELSE s

RECURSIVE RStrip(_)
RStrip(s) == IF Len(s) > 0 /\ s[Len(s)] \in Whitespace
             THEN RStrip(SubSeq(s, 1, Len(s) - 1)) ELSE s

Strip(s) == RStrip(LStrip(s))

StartsWith(s, lit) == Len(s) >= Len(lit) /\ SubSeq(s, 1, Len(lit)) = lit

EndsWith(s, lit) == Len(s) >= Len(lit) /\ SubSeq(s, Len(s) - Len(lit) + 1, Len(s)) = lit

\* s.find(lit) + 1: the first position where lit occurs in s, 0 when it does not
RECURSIVE FindFrom(_, _, _)
FindFrom(s, lit, p) == IF p + Len(lit) - 1 > Len(s) THEN 0
                       ELSE IF SubSeq(s, p, p + Len(lit) - 1) = lit THEN p
                       ELSE FindFrom(s, lit, p + 1)

Find(s, lit) == FindFrom(s, lit, 1)

\* lit in s
Contains(s, lit) == Find(s, lit) > 0

\* s.split(lit, 1)[0] and s.split(lit, 1)[1], for lit in s
SplitBefore(s, lit) == SubSeq(s, 1, Find(s, lit) - 1)

SplitAfter(s, lit) == Drop(s, Find(s, lit) + Len(lit) - 1)

\* sep.join(parts)
RECURSIVE Join(_, _)
Join(sep, parts) == IF Len(parts) = 0 THEN <<>>
                    ELSE IF Len(parts) = 1 THEN parts[1]
                    ELSE parts[1] \o sep \o Join(sep, Tail(parts))

RECURSIVE Concat(_)
Concat(parts) == IF Len(parts) = 0 THEN <<>> ELSE parts[1] \o Concat(Tail(parts))

\* the end of the maximal run of characters of class cls that starts at p
\* (p - 1 when s[p] is not in cls)
RECURSIVE RunEnd(_, _, _)
RunEnd(s, p, cls) == IF p <= Len(s) /\ s[p] \in cls THEN RunEnd(s, p + 1, cls) ELSE p - 1

\* sorted(xs): ascending, duplicates kept
RECURSIVE InsertSorted(_, _)
InsertSorted(s, x) == IF Len(s) = 0 THEN <<x>>
                      ELSE IF x < s[1] THEN <<x>> \o s
                      ELSE <<s[1]>> \o InsertSorted(Tail(s), x)

RECURSIVE Sorted(_)
Sorted(xs) == IF Len(xs) = 0 THEN <<>>
              ELSE InsertSorted(Sorted(SubSeq(xs, 1, Len(xs) - 1)), xs[Len(xs)])

\* the orders in which iterating a set can yield its elements
RECURSIVE Orderings(_)
Orderings(S) == IF S = {} THEN {<<>>}
                ELSE UNION {{<<x>> \o t : t \in Orderings(S \ {x})} : x \in S}

\* dict.get(key, default)
Get(mapping, key, default) == IF key \in DOMAIN mapping THEN mapping[key] ELSE default

\* mapping[key] = value
Put(mapping, key, value) ==
    [k \in DOMAIN mapping \cup {key} |-> IF k = key THEN value ELSE mapping[k]]

EmptyMapping == [k \in {} |-> <<>>]

\* ------------------------------------------- compare_value_sets.py: patterns

NoMatch == [found |-> FALSE, group1 |-> <<>>, group2 |-> <<>>]

LitValue == <<"(", "v", "a", "l", "u", "e">>

\* VALUE_PATTERN.match at position p: "(value", one or more whitespace, one or
\* more digits (group 1), ")".  Each run is maximal: giving a character back
\* cannot make the rest match.
ValueMatchAt(line, p) ==
    LET w == RunEnd(line, p + Len(LitValue), Whitespace)
        d == RunEnd(line, w + 1, Digits)
    IN IF /\ p + Len(LitValue) - 1 <= Len(line)
          /\ SubSeq(line, p, p + Len(LitValue) - 1) = LitValue
          /\ w >= p + Len(LitValue)
          /\ d >= w + 1
          /\ d + 1 <= Len(line)
          /\ line[d + 1] = ")"
       THEN [found |-> TRUE, group1 |-> SubSeq(line, w + 1, d), group2 |-> <<>>]
       ELSE NoMatch

\* VALUE_PATTERN.search(line): the match at the leftmost position that has one
RECURSIVE ValueSearchFrom(_, _)
ValueSearchFrom(line, p) ==
    IF p > Len(line) THEN NoMatch
    ELSE IF ValueMatchAt(line, p).found THEN ValueMatchAt(line, p)
    ELSE ValueSearchFrom(line, p + 1)

ValueSearch(line) == ValueSearchFrom(line, 1)

\* TRAILING_NUMBER_PATTERN.match at position p: one or more digits (group 1),
\* whitespace, end of the line
TrailingMatchAt(line, p) ==
    LET d == RunEnd(line, p, Digits)
        w == RunEnd(line, d + 1, Whitespace)
    IN IF d >= p /\ w = Len(line)
       THEN [found |-> TRUE, group1 |-> SubSeq(line, p, d), group2 |-> <<>>]
       ELSE NoMatch

RECURSIVE TrailingSearchFrom(_, _)
TrailingSearchFrom(line, p) ==
    IF p > Len(line) THEN NoMatch
    ELSE IF TrailingMatchAt(line, p).found THEN TrailingMatchAt(line, p)
    ELSE TrailingSearchFrom(line, p + 1)

TrailingSearch(line) == TrailingSearchFrom(line, 1)

\* the hooks pattern ^\s*(\d+)\s*--\s*(.*) searched in a line: it can match
\* at the start only; group 2 runs to the end of the line, line feed excluded
HooksSearch(line) ==
    LET a == RunEnd(line, 1, Whitespace) + 1
        b == RunEnd(line, a, Digits)
        c == RunEnd(line, b + 1, Whitespace) + 1
        d == RunEnd(line, c + 2, Whitespace) + 1
        e == RunEnd(line, d, Range(line) \ {"\n"})
    IN IF b >= a /\ c + 1 <= Len(line) /\ SubSeq(line, c, c + 1) = <<"-", "-">>
       THEN [found |-> TRUE, group1 |-> SubSeq(line, a, b), group2 |-> SubSeq(line, d, e)]
       ELSE NoMatch

\* ------------------------------------------ compare_value_sets.py: functions

\* the clean-up of a comment in load_prefix_descriptions
CleanComment(group2) ==
    LET c0 == Strip(group2)
        c1 == IF Contains(c0, <<"}", ",">>) THEN Strip(SplitBefore(c0, <<"}", ",">>)) ELSE c0
    IN IF EndsWith(c1, <<"\"">>) \/ EndsWith(c1, <<"'">>)
       THEN Strip(SubSeq(c1, 1, Len(c1) - 1))
       ELSE c1

\* mutant: the first description of a prefix is kept
LoadLine_first_wins(mapping_, line) ==
    LET match == HooksSearch(line)
    IN IF match.found /\ Len(match.group1) >= 4 /\ Take(match.group1, 4) \notin DOMAIN mapping_
       THEN Put(mapping_, Take(match.group1, 4), CleanComment(match.group2))
       ELSE mapping_

\* mutant: the length of the ID is not checked
LoadLine_short_ids(mapping, line) ==
    LET match == HooksSearch(line)
    IN IF match.found
       THEN Put(mapping, Take(match.group1, 4), CleanComment(match.group2))
       ELSE mapping

\* one iteration of the loop of load_prefix_descriptions
LoadLine(mapping, line) ==
    LET match == HooksSearch(line)
    IN IF match.found /\ Len(match.group1) >= 4
       THEN Put(mapping, Take(match.group1, 4), CleanComment(match.group2))
       ELSE mapping

\* load_prefix_descriptions over the lines of an existing file
RECURSIVE LoadFrom(_, _, _)
LoadFrom(lines, i, mapping) ==
    IF i > Len(lines) THEN mapping
    ELSE LoadFrom(lines, i + 1, LoadLine(mapping, lines[i]))

\* path.exists() is false for the absent file
Absent == <<"absent">>

load_prefix_descriptions(file) ==
    IF file = Absent THEN EmptyMapping ELSE LoadFrom(file, 1, EmptyMapping)

\* mutant: every match of the line is taken, as with findall
RECURSIVE AllValuesFrom(_, _)
AllValuesFrom(line, p) ==
    IF p > Len(line) THEN {}
    ELSE (IF ValueMatchAt(line, p).found THEN {ParseInt(ValueMatchAt(line, p).group1)} ELSE {})
         \cup AllValuesFrom(line, p + 1)

ReadUniqueLine_every_match(values_, line) == values_ \cup AllValuesFrom(line, 1)

\* one iteration of the loop of read_unique_values
ReadUniqueLine(values, line) ==
    LET match == ValueSearch(line)
    IN IF match.found THEN values \cup {ParseInt(match.group1)} ELSE values

\* one iteration of the loop of read_manifest_values
ReadManifestLine(values, line) ==
    LET match == TrailingSearch(line)
    IN IF match.found THEN values \cup {ParseInt(match.group1)} ELSE values

\* str(value)[:4]
Prefix(value) == Take(Str(value), 4)

RECURSIVE CollectFrom(_, _, _, _)
CollectFrom(values, i, seen, prefixes) ==
    IF i > Len(values) THEN prefixes
    ELSE IF Prefix(values[i]) \notin seen
         THEN CollectFrom(values, i + 1, seen \cup {Prefix(values[i])},
                          Append(prefixes, Prefix(values[i])))
         ELSE CollectFrom(values, i + 1, seen, prefixes)

\* mutant: a prefix is appended whether seen or not
collect_prefixes_unseen(values) == [i \in DOMAIN values |-> Prefix(values[i])]

collect_prefixes(values) == CollectFrom(values, 1, {}, <<>>)

\* mutant: the remainder line counts every entry
section_counts_all(name, numbers_, limit_) ==
    LET sorted == Sorted(numbers_)
        head == <<"\n", name, ": ">> \o Str(Len(sorted))
        show_all == limit_ <= 0 \/ Len(sorted) <= limit_
        to_show == IF show_all THEN sorted ELSE SubSeq(sorted, 1, limit_)
        shown == <<" ", " ">> \o Join(<<", ">>, [i \in DOMAIN to_show |-> Str(to_show[i])])
    IN IF Len(sorted) = 0 THEN <<head, <<"  (none)">>>>
       ELSE IF show_all THEN <<head, shown>>
       ELSE <<head, shown, <<"  ... (">> \o Str(Len(sorted)) \o <<" more)">>>>

\* what section prints: one text per call of print
section(name, numbers, limit) ==
    LET sorted == Sorted(numbers)
        head == <<"\n", name, ": ">> \o Str(Len(sorted))
        show_all == limit <= 0 \/ Len(sorted) <= limit
        to_show == IF show_all THEN sorted ELSE SubSeq(sorted, 1, limit)
        shown == <<" ", " ">> \o Join(<<", ">>, [i \in DOMAIN to_show |-> Str(to_show[i])])
    IN IF Len(sorted) = 0 THEN <<head, <<"  (none)">>>>
       ELSE IF show_all THEN <<head, shown>>
       ELSE <<head, shown, <<"  ... (">> \o Str(Len(sorted) - limit) \o <<" more)">>>>

UnknownCategory == <<"unknown category">>

\* the lines write_report builds, each ending in a line feed
ReportLines(unique_count, manifest_count, prefixes, missing, critical, prefix_descriptions) ==
    <<<<"Prefixes (first 4 digits):", "\n">>>>
    \o (IF Len(prefixes) > 0
        THEN [i \in DOMAIN prefixes |->
                 prefixes[i] \o <<" -- ">>
                 \o Get(prefix_descriptions, prefixes[i], UnknownCategory) \o <<"\n">>]
        ELSE <<<<"(none)", "\n">>>>)
    \o << <<"\n">>,
          <<"Loaded ">> \o Str(unique_count) \o <<" unique-pointer values.", "\n">>,
          <<"Loaded ">> \o Str(manifest_count) \o <<" manifest values.", "\n">>,
          <<"\n">> >>
    \o << <<"Missing in manifest: ">> \o Str(Len(missing)) \o <<"\n">> >>
    \o (IF Len(missing) > 0
        THEN [i \in DOMAIN missing |-> Str(missing[i]) \o <<"\n">>]
        ELSE <<<<"(none)", "\n">>>>)
    \o << <<"\n">>,
          <<"Critical error: manifest-only entries: ">> \o Str(Len(critical)) \o <<"\n">> >>
    \o (IF Len(critical) > 0
        THEN [i \in DOMAIN critical |-> Str(critical[i]) \o <<"\n">>]
        ELSE <<<<"(none)", "\n">>>>)

\* mutant: the file is opened for appending
write_text_appending(old, lines) ==
    IF old = Absent THEN Concat(lines) ELSE old \o Concat(lines)

\* path.write_text("".join(lines)): the new content of the file, whatever it held
write_text(old, lines) == Concat(lines)

\* ----------------------------------------------------------------- state

VARIABLES
    pc,                     \* position of the running program
    unique_file,            \* the values read_unique_values finds in args.unique_file
    items_file,             \* the values read_manifest_values finds in args.items_file
    error_file,             \* the values read_error_values finds in args.error_file
    hooks_file,             \* the lines of args.hooks_file, or Absent
    limit,                  \* args.limit
    output_file,            \* the content of the output file, or Absent
    stdout,                 \* what was printed, one text per call of print
    run,                    \* how many times the program was started
    previous_report,        \* what output_file held when the program was started again
    unique_values, manifest_values, error_values, prefix_descriptions,
    missing_in_manifest, critical_manifest_only, prefixes,   \* locals of main
    reader,                 \* the reading function that runs
    handle,                 \* the lines of the file being read, or Absent
    pos,                    \* how many lines of handle the loop has taken
    values,                 \* local of read_unique_values and read_manifest_values
    mapping,                \* local of load_prefix_descriptions
    numbers,                \* argument of section
    words, pair_values      \* locals of treatisie.process_file

mainVars == <<unique_file, items_file, error_file, hooks_file, run, previous_report,
              unique_values, manifest_values, error_values, prefix_descriptions,
              missing_in_manifest, critical_manifest_only, prefixes>>

readerVars == <<reader, values, mapping>>

treatiseVars == <<words, pair_values>>

vars == <<pc, limit, output_file, stdout, handle, pos, numbers,
          mainVars, readerVars, treatiseVars>>

\* the variables of a program that is not the one running
MainIdle ==
    /\ unique_file = {} /\ items_file = {} /\ error_file = {} /\ hooks_file = Absent
    /\ run = 0 /\ previous_report = Absent
    /\ unique_values = {} /\ manifest_values = {} /\ error_values = {}
    /\ prefix_descriptions = EmptyMapping
    /\ missing_in_manifest = <<>> /\ critical_manifest_only = <<>> /\ prefixes = <<>>

ReaderIdle == reader = "none" /\ values = {} /\ mapping = EmptyMapping

HandleIdle == handle = Absent /\ pos = 0

TreatiseIdle == words = <<>> /\ pair_values = <<>>

\* ------------------------------------------------ compare_value_sets.main

MaxLimit == 2

ValuePool == {12, 100100001, 100100002, 200200001, 300300001}

ManifestPool == {12, 100100001, 100100002, 300300001}

ErrorFiles == {{}, {100100002}, {12, 300300001}}

HooksLine1 == <<"1", "0", "0", "1", "0", "0", " ", "-", "-", " ", "g", "e", "m", "\n">>

HooksLine2 == <<"2", "0", "0", "2", "-", "-", "o", "r", "e", "\"", "}", ",", " ", "-", "-", "x", "\n">>

HooksLine3 == <<"0", "0", "1", "2", " ", "-", "-", " ", "k", "e", "y", "'", "\n">>

HooksLine4 == <<"1", "2", " ", "-", "-", " ", "b", "o", "w", "\n">>

HooksFiles == {Absent, <<HooksLine1, HooksLine2>>, <<HooksLine3, HooksLine4, HooksLine1>>}

InitMain ==
    /\ pc = "start"
    /\ unique_file \in SUBSET ValuePool
    /\ items_file \in SUBSET ManifestPool
    /\ error_file \in ErrorFiles
    /\ hooks_file \in HooksFiles
    /\ limit \in -1..MaxLimit
    /\ output_file = Absent
    /\ stdout = <<>>
    /\ run = 1
    /\ previous_report = Absent
    /\ unique_values = {} /\ manifest_values = {} /\ error_values = {}
    /\ prefix_descriptions = EmptyMapping
    /\ missing_in_manifest = <<>> /\ critical_manifest_only = <<>> /\ prefixes = <<>>
    /\ numbers = <<>>
    /\ HandleIdle /\ ReaderIdle /\ TreatiseIdle

notMain == <<handle, pos, numbers, readerVars, treatiseVars>>

\* main, lines 209-212: the four sources are read
ReadSources ==
    /\ pc = "start"
    /\ unique_values' = unique_file
    /\ manifest_values' = items_file
    /\ error_values' = error_file
    /\ prefix_descriptions' = load_prefix_descriptions(hooks_file)
    /\ pc' = "filter"
    /\ UNCHANGED <<unique_file, items_file, error_file, hooks_file, limit, output_file,
                   stdout, run, previous_report, missing_in_manifest,
                   critical_manifest_only, prefixes, notMain>>

\* main, lines 214-216
FilterIgnored ==
    /\ pc = "filter"
    /\ IF error_values # {}
       THEN /\ unique_values' = unique_values \ error_values
            /\ manifest_values' = manifest_values \ error_values
       ELSE UNCHANGED <<unique_values, manifest_values>>
    /\ pc' = "difference"
    /\ UNCHANGED <<unique_file, items_file, error_file, hooks_file, limit, output_file,
                   stdout, run, previous_report, error_values, prefix_descriptions,
                   missing_in_manifest, critical_manifest_only, prefixes, notMain>>

\* mutant: the difference is not sorted
MissingOf_unsorted(order) == order

\* sorted(unique_values - manifest_values), the set yielding its elements in order
MissingOf(order) == Sorted(order)

\* sorted(manifest_values - unique_values)
CriticalOf(order) == Sorted(order)

\* mutant: the second difference is the whole manifest set
Difference_critical_whole ==
    /\ pc = "difference"
    /\ \E order \in Orderings(unique_values \ manifest_values) :
          missing_in_manifest' = MissingOf(order)
    /\ \E order \in Orderings(manifest_values) :
          critical_manifest_only' = CriticalOf(order)
    /\ pc' = "prefixes"
    /\ UNCHANGED <<unique_file, items_file, error_file, hooks_file, limit, output_file,
                   stdout, run, previous_report, unique_values, manifest_values,
                   error_values, prefix_descriptions, prefixes, notMain>>

\* main, lines 218-219
Difference ==
    /\ pc = "difference"
    /\ \E order \in Orderings(unique_values \ manifest_values) :
          missing_in_manifest' = MissingOf(order)
    /\ \E order \in Orderings(manifest_values \ unique_values) :
          critical_manifest_only' = CriticalOf(order)
    /\ pc' = "prefixes"
    /\ UNCHANGED <<unique_file, items_file, error_file, hooks_file, limit, output_file,
                   stdout, run, previous_report, unique_values, manifest_values,
                   error_values, prefix_descriptions, prefixes, notMain>>

\* main, line 221
CollectPrefixes ==
    /\ pc = "prefixes"
    /\ prefixes' = collect_prefixes(missing_in_manifest)
    /\ pc' = "console"
    /\ UNCHANGED <<unique_file, items_file, error_file, hooks_file, limit, output_file,
                   stdout, run, previous_report, unique_values, manifest_values,
                   error_values, prefix_descriptions, missing_in_manifest,
                   critical_manifest_only, notMain>>

\* main, lines 223-227
PrintConsole ==
    /\ pc = "console"
    /\ stdout' = stdout
          \o << <<"Loaded ">> \o Str(Cardinality(unique_values)) \o <<" unique-pointer values.">>,
                <<"Loaded ">> \o Str(Cardinality(manifest_values)) \o <<" manifest values.">> >>
          \o section("Missing in manifest", missing_in_manifest, limit)
          \o section("Critical error: manifest-only entries", critical_manifest_only, limit)
    /\ pc' = "report"
    /\ UNCHANGED <<unique_file, items_file, error_file, hooks_file, limit, output_file,
                   run, previous_report, unique_values, manifest_values,
                   error_values, prefix_descriptions, missing_in_manifest,
                   critical_manifest_only, prefixes, notMain>>

\* mutant: the report lists no more values than the console
WriteReport_limited ==
    /\ pc = "report"
    /\ output_file' = write_text(output_file,
                         ReportLines(Cardinality(unique_values), Cardinality(manifest_values),
                                     prefixes,
                                     IF limit > 0 THEN Take(missing_in_manifest, limit)
                                     ELSE missing_in_manifest,
                                     critical_manifest_only,
                                     prefix_descriptions))
    /\ stdout' = Append(stdout, <<"\n", "Full report written to ", "args.output_file">>)
    /\ pc' = "done"
    /\ UNCHANGED <<unique_file, items_file, error_file, hooks_file, limit,
                   run, previous_report, unique_values, manifest_values,
                   error_values, prefix_descriptions, missing_in_manifest,
                   critical_manifest_only, prefixes, notMain>>

\* main, lines 229-237: write_report
WriteReport ==
    /\ pc = "report"
    /\ output_file' = write_text(output_file,
                         ReportLines(Cardinality(unique_values), Cardinality(manifest_values),
                                     prefixes, missing_in_manifest, critical_manifest_only,
                                     prefix_descriptions))
    /\ stdout' = Append(stdout, <<"\n", "Full report written to ", "args.output_file">>)
    /\ pc' = "done"
    /\ UNCHANGED <<unique_file, items_file, error_file, hooks_file, limit,
                   run, previous_report, unique_values, manifest_values,
                   error_values, prefix_descriptions, missing_in_manifest,
                   critical_manifest_only, prefixes, notMain>>

\* the program is started again on the same files
Rerun ==
    /\ pc = "done"
    /\ run = 1
    /\ run' = run + 1
    /\ previous_report' = output_file
    /\ pc' = "start"
    /\ stdout' = <<>>
    /\ unique_values' = {} /\ manifest_values' = {} /\ error_values' = {}
    /\ prefix_descriptions' = EmptyMapping
    /\ missing_in_manifest' = <<>> /\ critical_manifest_only' = <<>> /\ prefixes' = <<>>
    /\ UNCHANGED <<unique_file, items_file, error_file, hooks_file, limit, output_file,
                   notMain>>

Init == InitMain

Next ==
    \/ ReadSources
    \/ FilterIgnored
    \/ Difference
    \/ CollectPrefixes
    \/ PrintConsole
    \/ WriteReport
    \/ Rerun

Spec == Init /\ [][Next]_vars

\* ------------------------------------------------------ claims about main

\* the values of the two sources that are not ignored
A == unique_file \ error_file

B == items_file \ error_file

Ascending(s) == \A i \in 1..(Len(s) - 1) : s[i] < s[i + 1]

AfterDifference == pc \in {"prefixes", "console", "report", "done"}

AfterPrefixes == pc \in {"console", "report", "done"}

\* C1: once main has computed the differences, missing is the strictly
\* ascending list of exactly the values in A, not in B and not ignored, and
\* critical the strictly ascending list of exactly the values in B, not in A and
\* not ignored; no element of missing is in B and no element of critical is in A
\* (with 100100002 ignored, the example yields [200200001] and [300300001]).
C1_Differences ==
    AfterDifference =>
        /\ Ascending(missing_in_manifest)
        /\ Range(missing_in_manifest)
              = {v \in unique_file : v \notin items_file /\ v \notin error_file}
        /\ Ascending(critical_manifest_only)
        /\ Range(critical_manifest_only)
              = {v \in items_file : v \notin unique_file /\ v \notin error_file}
        /\ \A i \in DOMAIN missing_in_manifest : missing_in_manifest[i] \notin items_file
        /\ \A i \in DOMAIN critical_manifest_only : critical_manifest_only[i] \notin unique_file
        /\ (/\ unique_file = {100100001, 100100002, 200200001}
            /\ items_file = {100100001, 300300001}
            /\ error_file = {100100002})
           => /\ missing_in_manifest = <<200200001>>
              /\ critical_manifest_only = <<300300001>>

C1_Witness ==
    /\ pc = "done"
    /\ unique_file = {12, 100100001, 100100002, 200200001}
    /\ items_file = {100100001, 100100002, 300300001}
    /\ error_file = {100100002}
    /\ missing_in_manifest = <<12, 200200001>>
    /\ critical_manifest_only = <<300300001>>

\* C2: after ignore filtering, the two difference lists and the intersection
\* partition the union: len(missing) + len(critical) + |A & B| = |A | B|.
C2_Partition ==
    AfterDifference =>
        Len(missing_in_manifest) + Len(critical_manifest_only)
            + Cardinality(unique_values \cap manifest_values)
        = Cardinality(unique_values \cup manifest_values)

C2_Witness ==
    /\ pc = "done"
    /\ error_file # {}
    /\ unique_values # unique_file
    /\ Len(missing_in_manifest) = 2
    /\ Len(critical_manifest_only) = 1
    /\ Cardinality(unique_values \cap manifest_values) = 1

\* the number whose decimal digits are the first four digits of v (v itself
\* when it has fewer)
RECURSIVE PrefixNumber(_)
PrefixNumber(v) == IF v < 10000 THEN v ELSE PrefixNumber(v \div 10)

\* the position in the missing list of the first value with the prefix p
FirstWith(p) ==
    CHOOSE i \in DOMAIN missing_in_manifest :
        /\ PrefixNumber(missing_in_manifest[i]) = ParseInt(p)
        /\ \A j \in 1..(i - 1) : PrefixNumber(missing_in_manifest[j]) # ParseInt(p)

\* C3: collect_prefixes returns a list without repeated prefix that holds the
\* prefix of every missing value and nothing else, in the order of the first
\* occurrence of each prefix in the (sorted) missing list; for the example the
\* result is ["1001", "2002"].
C3_Prefixes ==
    AfterPrefixes =>
        /\ \A i, j \in DOMAIN prefixes : i # j => prefixes[i] # prefixes[j]
        /\ \A i \in DOMAIN prefixes :
              /\ Len(prefixes[i]) \in 1..4
              /\ Range(prefixes[i]) \subseteq Digits
              /\ prefixes[i] = Str(ParseInt(prefixes[i]))
        /\ {ParseInt(prefixes[i]) : i \in DOMAIN prefixes}
              = {PrefixNumber(missing_in_manifest[i]) : i \in DOMAIN missing_in_manifest}
        /\ \A i, j \in DOMAIN prefixes :
              i < j => FirstWith(prefixes[i]) < FirstWith(prefixes[j])
        /\ (/\ unique_file = {100100001, 100100002, 200200001}
            /\ items_file = {100100001, 300300001}
            /\ error_file = {})
           => prefixes = << <<"1", "0", "0", "1">>, <<"2", "0", "0", "2">> >>

C3_Witness ==
    /\ pc = "done"
    /\ missing_in_manifest = <<12, 100100001, 100100002, 200200001>>
    /\ prefixes = << <<"1", "2">>, <<"1", "0", "0", "1">>, <<"2", "0", "0", "2">> >>

\* the lines of a text, without their line feeds
RECURSIVE SplitLines(_)
SplitLines(text) ==
    IF Len(text) = 0 THEN <<>>
    ELSE IF Find(text, <<"\n">>) = 0 THEN <<text>>
    ELSE <<SplitBefore(text, <<"\n">>)>> \o SplitLines(SplitAfter(text, <<"\n">>))

\* C4: a missing value with fewer than 4 digits gets through the prefix
\* grouping: its prefix is its whole decimal string, shorter than 4 characters;
\* no key of the description mapping is shorter than 4 characters, and the
\* report holds the line of that prefix with the description "unknown category".
C4_ShortValue ==
    /\ AfterPrefixes =>
          \A i \in DOMAIN missing_in_manifest :
              missing_in_manifest[i] < 1000 =>
                  /\ Str(missing_in_manifest[i]) \in Range(prefixes)
                  /\ Len(Str(missing_in_manifest[i])) < 4
    /\ \A key \in DOMAIN prefix_descriptions : Len(key) = 4
    /\ pc = "done" =>
          \A i \in DOMAIN missing_in_manifest :
              missing_in_manifest[i] < 1000 =>
                  \E n \in DOMAIN SplitLines(output_file) :
                      /\ SplitLines(output_file)[n]
                            = Str(missing_in_manifest[i]) \o <<" -- ", "unknown category">>
                      /\ \A m \in DOMAIN SplitLines(output_file) :
                            StartsWith(SplitLines(output_file)[m],
                                       Str(missing_in_manifest[i]) \o <<" -- ">>)
                            => m = n

C4_Witness ==
    /\ pc = "done"
    /\ 12 \in Range(missing_in_manifest)
    /\ hooks_file = <<HooksLine3, HooksLine4, HooksLine1>>
    /\ DOMAIN prefix_descriptions = {<<"0", "0", "1", "2">>, <<"1", "0", "0", "1">>}
    /\ SplitLines(output_file)[2] = <<"1", "2", " -- ", "unknown category">>

\* the lines of the report from the n-th up to the next blank line or the end
RECURSIVE SectionEnd(_, _)
SectionEnd(L, n) == IF n <= Len(L) /\ L[n] # <<>> THEN SectionEnd(L, n + 1) ELSE n - 1

IsNumberLine(line) == Len(line) > 0 /\ Range(line) \subseteq Digits

\* a section of the report: a head with the count, then one line per value of
\* the set S, every value once, or the line "(none)" iff S is empty
ValueSection(L, first, last, label, S) ==
    /\ last >= first + 1
    /\ StartsWith(L[first], <<label>>)
    /\ IsNumberLine(Drop(L[first], 1))
    /\ ParseInt(Drop(L[first], 1))
          = Cardinality({n \in (first + 1)..last : IsNumberLine(L[n])})
    /\ (S = {}) <=> (\E n \in (first + 1)..last : L[n] = <<"(none)">>)
    /\ S = {} => last = first + 1
    /\ S # {} =>
          /\ last = first + Cardinality(S)
          /\ \A n \in (first + 1)..last : IsNumberLine(L[n]) /\ L[n] = Str(ParseInt(L[n]))
          /\ \A v \in S : Cardinality({n \in (first + 1)..last : ParseInt(L[n]) = v}) = 1

\* the prefix table of the report: a head, then one line per prefix of a value
\* of the set S, or the line "(none)" iff there is none
PrefixTable(L, last, S) ==
    /\ last >= 2
    /\ L[1] = <<"Prefixes (first 4 digits):">>
    /\ (S = {}) <=> (\E n \in 2..last : L[n] = <<"(none)">>)
    /\ S = {} => last = 2
    /\ S # {} =>
          /\ last = 1 + Cardinality({PrefixNumber(v) : v \in S})
          /\ \A n \in 2..last : Contains(L[n], <<" -- ">>)
          /\ \A v \in S :
                Cardinality({n \in 2..last :
                    SplitBefore(L[n], <<" -- ">>) = Str(PrefixNumber(v))}) = 1

\* C7: whatever the display limit, the report file holds, in this order, the
\* prefix table (one line per prefix, or "(none)" iff there is no prefix), a
\* blank line, the two counts, a blank line, the missing section (its count is
\* the number of value lines that follow, every missing value is listed once,
\* or "(none)" iff nothing is missing), a blank line, and the critical section
\* of the same shape.
C7_ReportComplete ==
    pc = "done" =>
        LET L == SplitLines(output_file)
            t == SectionEnd(L, 1)
            m == SectionEnd(L, t + 5)
            c == SectionEnd(L, m + 2)
        IN /\ output_file[Len(output_file)] = "\n"
           /\ PrefixTable(L, t, A \ B)
           /\ L[t + 1] = <<>>
           /\ L[t + 2] = <<"Loaded ">> \o Str(Cardinality(A)) \o <<" unique-pointer values.">>
           /\ L[t + 3] = <<"Loaded ">> \o Str(Cardinality(B)) \o <<" manifest values.">>
           /\ L[t + 4] = <<>>
           /\ ValueSection(L, t + 5, m, "Missing in manifest: ", A \ B)
           /\ L[m + 1] = <<>>
           /\ ValueSection(L, m + 2, c, "Critical error: manifest-only entries: ", B \ A)
           /\ c = Len(L)

C7_Witness ==
    /\ pc = "done"
    /\ limit = 1
    /\ Len(missing_in_manifest) = 3
    /\ Len(prefixes) = 2
    /\ critical_manifest_only = <<>>
    /\ Len(SplitLines(output_file)) = 14

\* C8: a second run on the same sources leaves the report file with the very
\* content the first run wrote, whatever the order in which the value sets
\* yield their elements and whatever the file held before.
C8_SameReport ==
    (pc = "done" /\ run = 2) => output_file = previous_report

C8_Witness ==
    /\ pc = "done"
    /\ run = 2
    /\ Len(missing_in_manifest) >= 2
    /\ Len(critical_manifest_only) >= 2
    /\ previous_report # Absent
    /\ output_file = previous_report

\* ------------------------------------------------------------- section

MaxNumbers == 3

NumberPool == {7, 12, 100100001}

SeqsUpTo(S, n) == UNION {[1..k -> S] : k \in 0..n}

\* section is about to be called with a list of numbers and a limit
InitSection ==
    /\ pc = "section"
    /\ numbers \in SeqsUpTo(NumberPool, MaxNumbers)
    /\ limit \in -1..(MaxNumbers + 1)
    /\ stdout = <<>>
    /\ output_file = Absent
    /\ MainIdle /\ HandleIdle /\ ReaderIdle /\ TreatiseIdle

\* section is called as main calls it for the first list
CallSection ==
    /\ pc = "section"
    /\ stdout' = section("Missing in manifest", numbers, limit)
    /\ pc' = "done"
    /\ UNCHANGED <<limit, output_file, handle, pos, numbers,
                   mainVars, readerVars, treatiseVars>>

SpecSection == InitSection /\ [][CallSection]_vars

\* the pieces of a text between the occurrences of a separator
RECURSIVE SplitAll(_, _)
SplitAll(text, sep) ==
    IF Find(text, sep) = 0 THEN <<text>>
    ELSE <<SplitBefore(text, sep)>> \o SplitAll(SplitAfter(text, sep), sep)

Occurrences(s, v) == Cardinality({i \in DOMAIN s : s[i] = v})

\* the ascending arrangement of a list
Arranged(s) ==
    CHOOSE t \in [DOMAIN s -> Range(s)] :
        /\ \A i \in 1..(Len(s) - 1) : t[i] <= t[i + 1]
        /\ \A v \in Range(s) : Occurrences(t, v) = Occurrences(s, v)

\* the numbers a printed line shows after its two leading blanks
ShownNumbers(line) ==
    LET pieces == SplitAll(Drop(line, 2), <<", ">>)
    IN [i \in DOMAIN pieces |-> ParseInt(pieces[i])]

\* C6: section prints "(none)" iff the list is empty; otherwise it prints the
\* values in ascending order, all of them when limit <= 0 or the list has at
\* most limit entries, else the limit smallest ones followed by a remainder
\* line that counts len(list) - limit entries; shown plus hidden is the length
\* of the list, and the remainder line is there only when values are hidden.
C6_Section ==
    pc = "done" =>
        LET n == Len(numbers)
            k == IF limit <= 0 \/ n <= limit THEN n ELSE limit
        IN /\ Len(stdout) \in {2, 3}
           /\ stdout[1] = <<"\n", "Missing in manifest", ": ">> \o Str(n)
           /\ (n = 0) <=> (stdout[2] = <<"  (none)">>)
           /\ n = 0 => Len(stdout) = 2
           /\ n > 0 =>
                 /\ Take(stdout[2], 2) = <<" ", " ">>
                 /\ ShownNumbers(stdout[2]) = SubSeq(Arranged(numbers), 1, k)
                 /\ (Len(stdout) = 3) <=> (k < n)
                 /\ Len(stdout) = 3 =>
                       /\ stdout[3] = <<"  ... (">> \o Str(n - limit) \o <<" more)">>
                       /\ Len(ShownNumbers(stdout[2])) + ParseInt(SubSeq(stdout[3], 2, Len(stdout[3]) - 1)) = n

C6_Witness ==
    /\ pc = "done"
    /\ numbers = <<12, 100100001, 7>>
    /\ limit = 2
    /\ stdout = << <<"\n", "Missing in manifest", ": ", "3">>,
                   <<" ", " ", "7", ", ", "1", "2">>,
                   <<"  ... (", "1", " more)">> >>

\* ------------------------------------------- the three line-reading loops

MaxFileLines == 3

UniqueLine1 == LitValue \o <<" ", "1", "2", ")", "\n">>

UniqueLine2 == <<"x", " ">> \o LitValue \o <<" ", " ", "7", ")", " ">> \o LitValue \o <<" ", "9", ")", "\n">>

UniqueLine3 == LitValue \o <<"\t", "0", "1", "2", ")", " ", "y", "\n">>

UniqueLine4 == LitValue \o <<"1", "2", ")", "\n">>

UniqueLine5 == <<"v", "a", "l", "u", "e", " ", "5", "\n">>

UniqueLine6 == LitValue \o <<" ", "3", " ", ")", " ">> \o LitValue \o <<" ", "9", ")">>

UniqueLines == {UniqueLine1, UniqueLine2, UniqueLine3, UniqueLine4, UniqueLine5, UniqueLine6}

ManifestLine1 == <<"a", ":", ":", "1", "2", "\n">>

ManifestLine2 == <<"b", ":", ":", "7", " ", "\t", "\n">>

ManifestLine3 == <<"1", "2", " ", "3", "4", "\n">>

ManifestLine4 == <<"c", ":", ":", "0", "1", "2">>

ManifestLine5 == <<"d", ":", ":", "5", "x", "\n">>

ManifestLine6 == <<"\n">>

ManifestLines == {ManifestLine1, ManifestLine2, ManifestLine3, ManifestLine4,
                  ManifestLine5, ManifestLine6, UniqueLine1}

HooksLine5 == <<"x", " ", "1", "0", "0", "1", " ", "-", "-", " ", "q", "\n">>

HooksLine6 == <<"1", "0", "0", "1", " ", "-", " ", "e", "\n">>

HooksLine7 == <<" ", "1", "0", "0", "1", "5", " ", "-", "-", " ", "\"", "t", "o", "p", "\"", " ", "\n">>

HooksLine8 == <<"2", "0", "0", "2", " ", "-", "-", "\n">>

HooksLines == {HooksLine1, HooksLine2, HooksLine3, HooksLine4,
               HooksLine5, HooksLine6, HooksLine7, HooksLine8}

\* a reading function has opened its file, or found that it does not exist
InitReaders ==
    /\ pc = "loop"
    /\ \/ reader = "read_unique_values" /\ handle \in SeqsUpTo(UniqueLines, MaxFileLines)
       \/ reader = "read_manifest_values" /\ handle \in SeqsUpTo(ManifestLines, MaxFileLines)
       \/ reader = "load_prefix_descriptions"
             /\ handle \in SeqsUpTo(HooksLines, MaxFileLines) \cup {Absent}
    /\ pos = 0
    /\ values = {}
    /\ mapping = EmptyMapping
    /\ limit = 0 /\ output_file = Absent /\ stdout = <<>> /\ numbers = <<>>
    /\ MainIdle /\ TreatiseIdle

notReaders == <<limit, output_file, stdout, numbers, mainVars, treatiseVars>>

\* read_unique_values, lines 97-100: the loop takes the next line
ReadUniqueStep ==
    /\ pc = "loop" /\ reader = "read_unique_values"
    /\ pos < Len(handle)
    /\ values' = ReadUniqueLine(values, handle[pos + 1])
    /\ pos' = pos + 1
    /\ UNCHANGED <<pc, reader, handle, mapping, notReaders>>

\* read_manifest_values, lines 107-110
ReadManifestStep ==
    /\ pc = "loop" /\ reader = "read_manifest_values"
    /\ pos < Len(handle)
    /\ values' = ReadManifestLine(values, handle[pos + 1])
    /\ pos' = pos + 1
    /\ UNCHANGED <<pc, reader, handle, mapping, notReaders>>

\* load_prefix_descriptions, lines 72-90
LoadStep ==
    /\ pc = "loop" /\ reader = "load_prefix_descriptions"
    /\ handle # Absent
    /\ pos < Len(handle)
    /\ mapping' = LoadLine(mapping, handle[pos + 1])
    /\ pos' = pos + 1
    /\ UNCHANGED <<pc, reader, handle, values, notReaders>>

\* load_prefix_descriptions, lines 64-65
LoadAbsent ==
    /\ pc = "loop" /\ reader = "load_prefix_descriptions"
    /\ handle = Absent
    /\ pc' = "returned"
    /\ UNCHANGED <<reader, handle, pos, values, mapping, notReaders>>

\* lines 91, 101, 111: the file is exhausted and the function returns
Return ==
    /\ pc = "loop"
    /\ handle # Absent
    /\ pos = Len(handle)
    /\ pc' = "returned"
    /\ UNCHANGED <<reader, handle, pos, values, mapping, notReaders>>

NextReaders ==
    \/ ReadUniqueStep
    \/ ReadManifestStep
    \/ LoadStep
    \/ LoadAbsent
    \/ Return

SpecReaders == InitReaders /\ [][NextReaders]_vars

AllIn(line, from, to, cls) == \A i \in from..to : line[i] \in cls

\* the places <<p, a, b>> where a line holds "(value", whitespace, the digits
\* a..b and ")", from position p on
ValuePlaces(line) ==
    UNION {UNION {{<<p, a, b>> :
                      b \in {y \in a..(Len(line) - 1) :
                                AllIn(line, a, y, Digits) /\ line[y + 1] = ")"}} :
                  a \in {x \in (p + Len(LitValue) + 1)..Len(line) :
                            AllIn(line, p + Len(LitValue), x - 1, Whitespace)}} :
           p \in {q \in DOMAIN line :
                     /\ q + Len(LitValue) - 1 <= Len(line)
                     /\ SubSeq(line, q, q + Len(LitValue) - 1) = LitValue}}

\* the places <<a, b>> where a line holds the digits a..b and then nothing
\* but whitespace
TrailingPlaces(line) ==
    UNION {{<<a, b>> : a \in {x \in 1..b : AllIn(line, x, b, Digits)}} :
           b \in {y \in DOMAIN line : AllIn(line, y + 1, Len(line), Whitespace)}}

Leftmost(places) == CHOOSE t \in places : \A u \in places : t[1] <= u[1]

\* the integers an extractor is to capture from a line: none when the line
\* does not match the pattern, else the one of the leftmost match
Captured(kind, line) ==
    IF kind = "read_unique_values"
    THEN IF ValuePlaces(line) = {} THEN {}
         ELSE {ParseInt(SubSeq(line, Leftmost(ValuePlaces(line))[2],
                                     Leftmost(ValuePlaces(line))[3]))}
    ELSE IF TrailingPlaces(line) = {} THEN {}
         ELSE {ParseInt(SubSeq(line, Leftmost(TrailingPlaces(line))[1],
                                     Leftmost(TrailingPlaces(line))[2]))}

\* C5: while an extractor reads, and when it returns, its set holds exactly
\* the integers captured from the lines read that match its pattern: a matching
\* line gives one value, a line that does not match gives none, and a value
\* captured on several lines is there once.
C5_Extracted ==
    reader \in {"read_unique_values", "read_manifest_values"} =>
        /\ values = UNION {Captured(reader, handle[i]) : i \in 1..pos}
        /\ \A i \in 1..pos : Cardinality(Captured(reader, handle[i])) <= 1
        /\ Cardinality(values)
              <= Cardinality({i \in 1..pos : Captured(reader, handle[i]) # {}})
        /\ pc = "returned" => pos = Len(handle)

C5_Witness ==
    /\ reader = "read_unique_values"
    /\ pc = "returned"
    /\ handle = <<UniqueLine3, UniqueLine2, UniqueLine1>>
    /\ values = {7, 12}

\* the places <<a, b, c>> where a line holds, from its start, whitespace, the
\* digits a..b, whitespace and "--" at c
HooksPlaces(line) ==
    UNION {UNION {{<<a, b, c>> :
                      c \in {z \in (b + 1)..(Len(line) - 1) :
                                /\ AllIn(line, b + 1, z - 1, Whitespace)
                                /\ line[z] = "-" /\ line[z + 1] = "-"}} :
                  b \in {y \in a..Len(line) : AllIn(line, a, y, Digits)}} :
           a \in {x \in DOMAIN line : AllIn(line, 1, x - 1, Whitespace)}}

\* the lines read so far that match with an ID of at least 4 digits
Annotating ==
    {i \in 1..pos : \E t \in HooksPlaces(handle[i]) : t[2] - t[1] + 1 >= 4}

IdOf(line) ==
    LET t == CHOOSE u \in HooksPlaces(line) : TRUE IN SubSeq(line, t[1], t[2])

TextOf(line) ==
    LET t == CHOOSE u \in HooksPlaces(line) : TRUE IN Drop(line, t[3] + 1)

\* C9: the keys of the mapping are the first four digits of the IDs of at least
\* 4 digits on the matching lines read so far (a shorter ID adds and changes
\* nothing), the description of a key is the cleaned text of the last such
\* line, and an absent source yields the empty mapping.
C9_Descriptions ==
    reader = "load_prefix_descriptions" =>
        /\ handle = Absent => mapping = EmptyMapping
        /\ handle # Absent =>
              /\ DOMAIN mapping = {Take(IdOf(handle[i]), 4) : i \in Annotating}
              /\ \A key \in DOMAIN mapping :
                    /\ Len(key) = 4
                    /\ \E i \in Annotating :
                          /\ Take(IdOf(handle[i]), 4) = key
                          /\ \A j \in Annotating :
                                Take(IdOf(handle[j]), 4) = key => j <= i
                          /\ mapping[key] = CleanComment(TextOf(handle[i]))

C9_Witness ==
    /\ reader = "load_prefix_descriptions"
    /\ pc = "returned"
    /\ handle = <<HooksLine7, HooksLine4, HooksLine1>>
    /\ mapping = [key \in {<<"1", "0", "0", "1">>} |-> <<"g", "e", "m">>]

\* -------------------------------------------------- treatisie.process_file

MaxPairLines == 3

LitWord == <<"W", "o", "r", "d", ":">>

LitFound == <<"F", "o", "u", "n", "d", " ", "v", "a", "l", "u", "e">>

LitValueColon == <<"V", "a", "l", "u", "e", ":">>

\* U+00B2 SUPERSCRIPT TWO, one character: str.isdigit() holds of it and int()
\* rejects it
SuperscriptTwo == "sup2"

\* the characters of the model's alphabet of which str.isdigit() holds
IsDigitChars == Digits \cup {SuperscriptTwo}

PairLine1 == LitWord \o <<" ", "a", "b", " ", "|", "|", " ", "x", "\n">>

PairLine2 == <<" ", " ">> \o LitWord \o <<"c", "|", "|", "\n">>

PairLine3 == LitWord \o <<" ", "d", "\n">>

PairLine4 == LitFound \o <<" ">> \o LitValueColon \o <<" ", "1", "2", " ", "z", "\n">>

PairLine5 == LitFound \o <<" ", "a", "t", " ">> \o LitValueColon \o <<"0", "0", "7", "\n">>

PairLine6 == LitFound \o <<" ", "5", "\n">>

PairLine7 == LitFound \o <<" ">> \o LitValueColon \o <<" ", "x", "1", "\n">>

PairLine8 == LitFound \o <<" ">> \o LitValueColon \o <<" ", "3", SuperscriptTwo, "\n">>

PairLine9 == <<"o", "t", "h", "e", "r", "\n">>

PairLines == {PairLine1, PairLine2, PairLine3, PairLine4, PairLine5,
              PairLine6, PairLine7, PairLine8, PairLine9}

\* process_file has opened the input file
InitTreatise ==
    /\ pc = "read"
    /\ handle \in SeqsUpTo(PairLines, MaxPairLines)
    /\ pos = 0
    /\ words = <<>>
    /\ pair_values = <<>>
    /\ stdout = <<>>
    /\ output_file = Absent
    /\ limit = 0 /\ numbers = <<>>
    /\ MainIdle /\ ReaderIdle

notTreatise == <<limit, numbers, mainVars, readerVars>>

\* line[len("Word:"):].split("||", 1)[0].strip()
WordOf(line) == Strip(SplitBefore(Drop(line, Len(LitWord)), <<"|", "|">>))

\* the leading characters of the text after "Value:" of which isdigit() holds
NumStr(line) ==
    LET value_part == Strip(SplitAfter(line, LitValueColon))
    IN Take(value_part, RunEnd(value_part, 1, IsDigitChars))

\* int(num_str) raises ValueError unless every character is a decimal digit
IntRaises(num_str) == ~(Range(num_str) \subseteq Digits)

\* process_file, lines 11-36: the loop takes the next line
ProcessLine ==
    /\ pc = "read"
    /\ pos < Len(handle)
    /\ pos' = pos + 1
    /\ LET line == Strip(handle[pos + 1])
       IN IF StartsWith(line, LitWord)
          THEN IF Contains(line, <<"|", "|">>)
               THEN /\ words' = Append(words, WordOf(line))
                    /\ UNCHANGED <<pc, pair_values, stdout>>
               ELSE /\ stdout' = Append(stdout, <<"Skipped line without '||': ">> \o line)
                    /\ UNCHANGED <<pc, words, pair_values>>
          ELSE IF StartsWith(line, LitFound)
          THEN IF Contains(line, LitValueColon)
               THEN IF Len(NumStr(line)) > 0
                    THEN IF IntRaises(NumStr(line))
                         THEN /\ pc' = "error"
                              /\ UNCHANGED <<words, pair_values, stdout>>
                         ELSE /\ pair_values' = Append(pair_values, ParseInt(NumStr(line)))
                              /\ UNCHANGED <<pc, words, stdout>>
                    ELSE /\ stdout' = Append(stdout,
                                         <<"Skipped line without numeric value: ">> \o line)
                         /\ UNCHANGED <<pc, words, pair_values>>
               ELSE /\ stdout' = Append(stdout, <<"Skipped line without 'Value:': ">> \o line)
                    /\ UNCHANGED <<pc, words, pair_values>>
          ELSE UNCHANGED <<pc, words, pair_values, stdout>>
    /\ UNCHANGED <<handle, output_file, notTreatise>>

Min(a, b) == IF a < b THEN a ELSE b

\* process_file, lines 39-46: the warning, the output file, the summary
WritePairs ==
    /\ pc = "read"
    /\ pos = Len(handle)
    /\ output_file' = Concat([i \in 1..Min(Len(words), Len(pair_values)) |->
                                 words[i] \o <<"::">> \o Str(pair_values[i]) \o <<"\n">>])
    /\ stdout' = stdout
          \o (IF Len(words) # Len(pair_values)
              THEN << <<"Warning: Number of words (">> \o Str(Len(words))
                      \o <<") does not match number of values (">>
                      \o Str(Len(pair_values)) \o <<")">> >>
              ELSE <<>>)
          \o << <<"Extracted ">> \o Str(Min(Len(words), Len(pair_values)))
                \o <<" word-value pairs.">> >>
    /\ pc' = "done"
    /\ UNCHANGED <<handle, pos, words, pair_values, notTreatise>>

NextTreatise ==
    \/ ProcessLine
    \/ WritePairs

SpecTreatise == InitTreatise /\ [][NextTreatise]_vars

\* the lines that give a word: "Word:" lines with "||"
WordLines ==
    {i \in DOMAIN handle :
        /\ StartsWith(Strip(handle[i]), LitWord)
        /\ Contains(Strip(handle[i]), <<"|", "|">>)}

\* the lines that give a value: "Found value" lines with "Value:" and a digit
\* right after it
ValueLines ==
    {i \in DOMAIN handle :
        /\ StartsWith(Strip(handle[i]), LitFound)
        /\ Contains(Strip(handle[i]), LitValueColon)
        /\ Len(Strip(SplitAfter(Strip(handle[i]), LitValueColon))) > 0
        /\ Strip(SplitAfter(Strip(handle[i]), LitValueColon))[1] \in IsDigitChars}

\* the n-th smallest element of a set of numbers
Nth(S, n) == CHOOSE i \in S : Cardinality({j \in S : j < i}) = n - 1

PairingHolds ==
    /\ output_file # Absent
    /\ Len(words) = Cardinality(WordLines)
    /\ Len(pair_values) = Cardinality(ValueLines)
    /\ \A n \in DOMAIN words : words[n] = WordOf(Strip(handle[Nth(WordLines, n)]))
    /\ \A n \in DOMAIN pair_values :
          Str(pair_values[n])
             = Str(ParseInt(NumStr(Strip(handle[Nth(ValueLines, n)]))))
    /\ Len(SplitLines(output_file)) = Min(Len(words), Len(pair_values))
    /\ \A n \in DOMAIN SplitLines(output_file) :
          SplitLines(output_file)[n] = words[n] \o <<"::">> \o Str(pair_values[n])

\* C10: for every sequence of input lines process_file ends with the words and
\* the values collected in line order from the lines that give one, and with an
\* output file of exactly min(#words, #values) lines, the i-th pairing the i-th
\* word with the i-th value.
C10_Pairing ==
    pc \in {"done", "error"} => (pc = "done" /\ PairingHolds)

====
